---- MODULE Spec2Model ----
(***************************************************************************)
(* The template-test endpoint of functions/src/index.ts                    *)
(* (POST /api/admin/purchase-templates/test, lines 131-200): a request     *)
(* carries a receipt text and a template of five regular-expression        *)
(* sources; the handler compiles the sources, matches them against the     *)
(* text and answers with the parsed record.                                *)
(*                                                                         *)
(* Strings of the program are sequences of one-character strings.  The     *)
(* JavaScript built-ins the handler calls (String.prototype.trim, Number,  *)
(* RegExp, String.prototype.match / matchAll) are modelled by what they    *)
(* do on these sequences.  Regular-expression sources are keys of the      *)
(* table Parse, which gives the compiled form of each source the requests  *)
(* of this model use, or SyntaxError.                                      *)
(***************************************************************************)
EXTENDS Integers, Sequences, FiniteSets

(***************************************************************************)
(* Characters                                                              *)
(***************************************************************************)
Digits == {"0","1","2","3","4","5","6","7","8","9"}
DigitSeq == <<"0","1","2","3","4","5","6","7","8","9","a","b","c","d","e","f">>
Lowers == <<"a","b","c","d","e","f","g","h","i","j","k","l","m","n","o","p","q","r","s","t","u","v","w">>
Uppers == <<"A","B","C","D","E","F","G","H","I","J","K","L","M","N","O","P","Q","R","S","T","U","V","W">>
Letters == {Lowers[i] : i \in DOMAIN Lowers} \cup {Uppers[i] : i \in DOMAIN Uppers}
WhiteSpace == {" ", "\n"}
LineTerminators == {"\n"}
Punctuation == {":", ".", ",", "-", "+", "₹", "_"}
\* Every character a request text of this model is made of.  It holds no x, y
\* or z, so no text holds "Infinity" or a hexadecimal literal, which Number
\* would read as numbers too.
Alphabet == Digits \cup Letters \cup WhiteSpace \cup Punctuation

\* Canonicalize of the ignoreCase flag: the upper-case form of a letter.
Canon(c) ==
  IF \E i \in DOMAIN Lowers : Lowers[i] = c
  THEN Uppers[CHOOSE i \in DOMAIN Lowers : Lowers[i] = c]
  ELSE c

(***************************************************************************)
(* JavaScript values                                                       *)
(***************************************************************************)
\* undefined where a string may stand (a missing key, a capture group that
\* did not take part in the match); no text holds this character.
Undefined == <<"undefined">>
\* undefined where a pattern source may stand (a template key that is missing).
NoSource == "<undefined>"
Null == [tag |-> "null"]
NaN == [tag |-> "NaN"]
\* The number mant / 10^exp, with exp as small as possible.
Num(mant, exp) == [tag |-> "number", mant |-> mant, exp |-> exp]
Zero == Num(0, 0)

\* ToBoolean of a string or undefined.
TruthyStr(s) == s # Undefined /\ s # <<>>
\* ToBoolean of a number.
TruthyNum(n) == n # NaN /\ n.mant # 0
\* a || b on strings.
OrStr(a, b) == IF TruthyStr(a) THEN a ELSE b

RECURSIVE Pow10(_)
Pow10(n) == IF n = 0 THEN 1 ELSE 10 * Pow10(n - 1)

RECURSIVE Reduce(_, _)
\* mant / 10^exp with the trailing zeros of the fraction dropped.
Reduce(mant, exp) ==
  IF exp > 0 /\ mant % 10 = 0 THEN Reduce(mant \div 10, exp - 1) ELSE Num(mant, exp)

DigitVal(c) == (CHOOSE i \in DOMAIN DigitSeq : DigitSeq[i] = c) - 1

RECURSIVE ToInt(_, _)
\* The value of a sequence of digits in the given radix.
ToInt(ds, radix) ==
  IF ds = <<>> THEN 0
  ELSE ToInt(SubSeq(ds, 1, Len(ds) - 1), radix) * radix + DigitVal(ds[Len(ds)])

AllIn(s, set) == \A i \in DOMAIN s : s[i] \in set
Count(s, c) == Cardinality({i \in DOMAIN s : s[i] = c})
IndexOf(s, set) ==
  IF \E i \in DOMAIN s : s[i] \in set
  THEN CHOOSE i \in DOMAIN s : s[i] \in set /\ \A j \in 1..(i - 1) : s[j] \notin set
  ELSE 0

RECURSIVE TrimStart(_)
TrimStart(s) == IF s # <<>> /\ Head(s) \in WhiteSpace THEN TrimStart(Tail(s)) ELSE s
RECURSIVE TrimEnd(_)
TrimEnd(s) ==
  IF s # <<>> /\ s[Len(s)] \in WhiteSpace THEN TrimEnd(SubSeq(s, 1, Len(s) - 1)) ELSE s
\* String.prototype.trim
Trim(s) == TrimEnd(TrimStart(s))

\* StrUnsignedDecimalLiteral without exponent: digits with at most one '.',
\* at least one digit.
IsDecimal(s) ==
  /\ AllIn(s, Digits \cup {"."})
  /\ Count(s, ".") <= 1
  /\ \E i \in DOMAIN s : s[i] \in Digits

\* The value of a decimal literal, times 10^e.
DecimalValue(s, e) ==
  LET dot == IndexOf(s, {"."})
      frac == IF dot = 0 THEN 0 ELSE Len(s) - dot
      mant == ToInt(SelectSeq(s, LAMBDA c : c # "."), 10)
  IN  IF e >= frac THEN Num(mant * Pow10(e - frac), 0) ELSE Reduce(mant, frac - e)

Negate(n) == IF n = NaN THEN NaN ELSE Num(0 - n.mant, n.exp)

\* An unsigned StrDecimalLiteral: a decimal literal and an optional exponent part.
UnsignedNumber(s) ==
  LET ePos == IndexOf(s, {"e", "E"})
      body == IF ePos = 0 THEN s ELSE SubSeq(s, 1, ePos - 1)
      expo == IF ePos = 0 THEN <<>> ELSE SubSeq(s, ePos + 1, Len(s))
      eNeg == expo # <<>> /\ Head(expo) = "-"
      eDig == IF expo # <<>> /\ Head(expo) \in {"+", "-"} THEN Tail(expo) ELSE expo
  IN  IF ~IsDecimal(body) THEN NaN
      ELSE IF ePos = 0 THEN DecimalValue(body, 0)
      ELSE IF eDig = <<>> \/ ~AllIn(eDig, Digits) THEN NaN
      ELSE IF eNeg THEN DecimalValue(body, 0 - ToInt(eDig, 10))
      ELSE DecimalValue(body, ToInt(eDig, 10))

\* A binary, octal or hexadecimal integer literal (0b, 0o, 0x), or NaN.
RadixNumber(s) ==
  LET radix == CASE s[2] \in {"b", "B"} -> 2
                 [] s[2] \in {"o", "O"} -> 8
                 [] OTHER -> 16
      ds == [i \in 1..(Len(s) - 2) |-> IF Canon(s[i + 2]) \in Letters
                                        THEN Lowers[CHOOSE k \in DOMAIN Uppers : Uppers[k] = Canon(s[i + 2])]
                                        ELSE s[i + 2]]
  IN  IF ds # <<>> /\ AllIn(ds, {DigitSeq[k] : k \in 1..radix})
      THEN Num(ToInt(ds, radix), 0) ELSE NaN

\* Number(s) of a string: StringToNumber.
Number(s) ==
  LET t == Trim(s) IN
  IF t = <<>> THEN Zero
  ELSE IF Len(t) >= 2 /\ t[1] = "0" /\ t[2] \in {"b", "B", "o", "O", "x", "X"}
       THEN RadixNumber(t)
  ELSE IF Head(t) = "-" THEN Negate(UnsignedNumber(Tail(t)))
  ELSE IF Head(t) = "+" THEN UnsignedNumber(Tail(t))
  ELSE UnsignedNumber(t)

\* x || 0 and x || null on numbers.
OrZero(n) == IF TruthyNum(n) THEN n ELSE Zero
OrNull(n) == IF TruthyNum(n) THEN n ELSE Null

(***************************************************************************)
(* Regular expressions.  A compiled expression is a disjunction of         *)
(* alternatives; an alternative is a sequence of atoms; an atom is an      *)
(* assertion (^ or $ under the multiline flag) or a character set with a   *)
(* greedy quantifier {min,max}; grp is the number of the capture group the *)
(* atom stands in (0: none), names[g] the name of group g ("" if unnamed). *)
(* Every expression is compiled with the flags i and m (lines 142-146).    *)
(***************************************************************************)
\* The max of an unbounded quantifier (*, +).
Unbounded == 0 - 1

Bol == [kind |-> "bol", cls |-> {}, min |-> 0, max |-> 0, grp |-> 0]
Eol == [kind |-> "eol", cls |-> {}, min |-> 0, max |-> 0, grp |-> 0]
Set(cls, min, max, grp) == [kind |-> "set", cls |-> cls, min |-> min, max |-> max, grp |-> grp]
\* A literal character under the ignoreCase flag.
Lit(c, grp) == Set({x \in Alphabet : Canon(x) = Canon(c)}, 1, 1, grp)
\* A literal string.
Lits(str, grp) == [i \in DOMAIN str |-> Lit(str[i], grp)]

ClassDigit == Digits
ClassWord == Letters \cup Digits \cup {"_"}
ClassSpace == WhiteSpace
ClassNonSpace == Alphabet \ WhiteSpace
ClassDot == Alphabet \ LineTerminators

RECURSIVE Run(_, _, _, _)
\* How many characters of text from pos on are in cls, up to max.
Run(text, pos, cls, max) ==
  IF max = 0 \/ pos > Len(text) THEN 0
  ELSE IF text[pos] \notin cls THEN 0
  ELSE 1 + Run(text, pos + 1, cls, IF max = Unbounded THEN max ELSE max - 1)

RECURSIVE MatchSeq(_, _, _, _)
RECURSIVE TryCount(_, _, _, _, _)
\* The backtracking matcher: atoms k.. of an alternative against text at pos.
\* <<>> when they do not match; else the positions <<b_k, b_k+1, .., b_end>>
\* where atom j matched text[b_j .. b_j+1 - 1].
MatchSeq(atoms, k, text, pos) ==
  IF k > Len(atoms) THEN <<pos>>
  ELSE LET a == atoms[k]
           holds == CASE a.kind = "bol" -> pos = 1 \/ text[pos - 1] \in LineTerminators
                      [] a.kind = "eol" -> pos = Len(text) + 1 \/ text[pos] \in LineTerminators
                      [] OTHER -> FALSE
       IN  IF a.kind = "set" THEN TryCount(atoms, k, text, pos, Run(text, pos, a.cls, a.max))
           ELSE IF holds THEN TryCount(atoms, k, text, pos, 0)
           ELSE <<>>

\* Atom k taking n characters, then n-1, .. down to its min (greedy first).
TryCount(atoms, k, text, pos, n) ==
  IF n < atoms[k].min THEN <<>>
  ELSE LET rest == MatchSeq(atoms, k + 1, text, pos + n)
       IN  IF rest # <<>> THEN <<pos>> \o rest
           ELSE TryCount(atoms, k, text, pos, n - 1)

\* No match: what exec returns as null.
NoMatch == [found |-> FALSE, index |-> 0, end |-> 0, m |-> <<>>, names |-> <<>>]

\* The text of capture group g after the alternative atoms matched at bounds b.
Capture(atoms, b, text, g) ==
  LET in == {j \in DOMAIN atoms : atoms[j].grp = g}
  IN  IF in = {} THEN Undefined
      ELSE LET first == CHOOSE j \in in : \A i \in in : j <= i
               last == CHOOSE j \in in : \A i \in in : j >= i
           IN  SubSeq(text, b[first], b[last + 1] - 1)

\* The match array of alternative atoms matched at bounds b: m[1] is the whole
\* match (JavaScript's m[0]), m[g + 1] capture group g.
MatchArray(re, atoms, b, text) ==
  [found |-> TRUE, index |-> b[1], end |-> b[Len(b)],
   m |-> [i \in 1..(re.ngroups + 1) |->
            IF i = 1 THEN SubSeq(text, b[1], b[Len(b)] - 1)
            ELSE Capture(atoms, b, text, i - 1)],
   names |-> re.names]

RECURSIVE MatchAlts(_, _, _, _)
\* The first alternative, from alternative a on, that matches at pos.
MatchAlts(re, a, text, pos) ==
  IF a > Len(re.alts) THEN NoMatch
  ELSE LET b == MatchSeq(re.alts[a], 1, text, pos)
       IN  IF b # <<>> THEN MatchArray(re, re.alts[a], b, text)
           ELSE MatchAlts(re, a + 1, text, pos)

RECURSIVE Exec(_, _, _)
\* RegExpBuiltinExec from lastIndex from: the leftmost match.
Exec(re, text, from) ==
  IF from > Len(text) + 1 THEN NoMatch
  ELSE LET r == MatchAlts(re, 1, text, from)
       IN  IF r.found THEN r ELSE Exec(re, text, from + 1)

RECURSIVE MatchesFrom(_, _, _)
\* Every match from lastIndex from on; after an empty match lastIndex
\* advances by one character.
MatchesFrom(re, text, from) ==
  LET r == Exec(re, text, from)
  IN  IF ~r.found THEN <<>>
      ELSE <<r>> \o MatchesFrom(re, text, IF r.end = r.index THEN r.end + 1 ELSE r.end)

\* The value of the named capture key of a match: (mm.groups || {})[key].
Group(mm, key) ==
  IF \E g \in DOMAIN mm.names : mm.names[g] = key
  THEN mm.m[1 + CHOOSE g \in DOMAIN mm.names : mm.names[g] = key]
  ELSE Undefined

\* m[i] of a match array (JavaScript's index), undefined beyond its length.
At(m, i) == IF i + 1 \in DOMAIN m THEN m[i + 1] ELSE Undefined

(***************************************************************************)
(* new RegExp(src, flags): the compiled form of each pattern source the    *)
(* requests of this model use.  A source that is no regular expression     *)
(* makes the constructor throw a SyntaxError.                              *)
(***************************************************************************)
SyntaxError == [tag |-> "SyntaxError"]

RegExp(alts, names) ==
  [tag |-> "regexp", alts |-> alts, ngroups |-> Len(names), names |-> names, global |-> FALSE]

\* ^(.+)$
ReLine == RegExp(<< <<Bol, Set(ClassDot, 1, Unbounded, 1), Eol>> >>, <<"">>)
\* ^.+$
ReWholeLine == RegExp(<< <<Bol, Set(ClassDot, 1, Unbounded, 0), Eol>> >>, <<>>)
\* Shop:(\s*)\w+
ReShop ==
  RegExp(<< Lits(<<"S","h","o","p",":">>, 0)
            \o <<Set(ClassSpace, 0, Unbounded, 1), Set(ClassWord, 1, Unbounded, 0)>> >>, <<"">>)
\* Date: (\S+)
ReDate ==
  RegExp(<< Lits(<<"D","a","t","e",":"," ">>, 0) \o <<Set(ClassNonSpace, 1, Unbounded, 1)>> >>,
         <<"">>)
\* Total:\s*[₹]?([0-9,\.]+)
ReTotal ==
  RegExp(<< Lits(<<"T","o","t","a","l",":">>, 0)
            \o <<Set(ClassSpace, 0, Unbounded, 0), Set({"₹"}, 0, 1, 0),
                 Set(Digits \cup {",", "."}, 1, Unbounded, 1)>> >>, <<"">>)
\* (\w+ \w)\s+(\d+)\s+(\w+)\s+([0-9\.]+)
ReItems ==
  RegExp(<< <<Set(ClassWord, 1, Unbounded, 1), Lit(" ", 1), Set(ClassWord, 1, 1, 1),
              Set(ClassSpace, 1, Unbounded, 0), Set(ClassDigit, 1, Unbounded, 2),
              Set(ClassSpace, 1, Unbounded, 0), Set(ClassWord, 1, Unbounded, 3),
              Set(ClassSpace, 1, Unbounded, 0), Set(Digits \cup {"."}, 1, Unbounded, 4)>> >>,
         <<"", "", "", "">>)
\* (\w+) ([0-9,]+) (\w+) ([0-9.]+)
ReItemsComma ==
  RegExp(<< <<Set(ClassWord, 1, Unbounded, 1), Lit(" ", 0),
              Set(Digits \cup {","}, 1, Unbounded, 2), Lit(" ", 0),
              Set(ClassWord, 1, Unbounded, 3), Lit(" ", 0),
              Set(Digits \cup {"."}, 1, Unbounded, 4)>> >>,
         <<"", "", "", "">>)
\* (?<name>\w+) (?<qty>\d+) (?<unit>\w+) (?<price>[0-9.]+)
ReItemsNamed ==
  RegExp(<< <<Set(ClassWord, 1, Unbounded, 1), Lit(" ", 0),
              Set(ClassDigit, 1, Unbounded, 2), Lit(" ", 0),
              Set(ClassWord, 1, Unbounded, 3), Lit(" ", 0),
              Set(Digits \cup {"."}, 1, Unbounded, 4)>> >>,
         <<"name", "qty", "unit", "price">>)
\* (?<product>\w+) (\d+) (\w+) (?<price>[0-9.]+)
ReItemsMixed ==
  RegExp(<< <<Set(ClassWord, 1, Unbounded, 1), Lit(" ", 0),
              Set(ClassDigit, 1, Unbounded, 2), Lit(" ", 0),
              Set(ClassWord, 1, Unbounded, 3), Lit(" ", 0),
              Set(Digits \cup {"."}, 1, Unbounded, 4)>> >>,
         <<"product", "", "", "price">>)
\* (?<quantity>\d+) (?<unit>\w+)
ReItemsQuantity ==
  RegExp(<< <<Set(ClassDigit, 1, Unbounded, 1), Lit(" ", 0),
              Set(ClassWord, 1, Unbounded, 2)>> >>,
         <<"quantity", "unit">>)
\* (\w+):|(\d+) (\w+)
ReItemsAlt ==
  RegExp(<< <<Set(ClassWord, 1, Unbounded, 1), Lit(":", 0)>>,
            <<Set(ClassDigit, 1, Unbounded, 2), Lit(" ", 0), Set(ClassWord, 1, Unbounded, 3)>> >>,
         <<"", "", "">>)
\* (?<price>.+)
RePrice == RegExp(<< <<Set(ClassDot, 1, Unbounded, 1)>> >>, <<"price">>)
\* \d+
ReDigits == RegExp(<< <<Set(ClassDigit, 1, Unbounded, 0)>> >>, <<>>)

\* The sources that are no regular expression: an unterminated group, an
\* unterminated character class.
InvalidSources == {"(", "[0-9"}

Parse(src) ==
  CASE src = "^(.+)$" -> ReLine
    [] src = "^.+$" -> ReWholeLine
    [] src = "Shop:(\\s*)\\w+" -> ReShop
    [] src = "Date: (\\S+)" -> ReDate
    [] src = "Total:\\s*[₹]?([0-9,\\.]+)" -> ReTotal
    [] src = "(\\w+ \\w)\\s+(\\d+)\\s+(\\w+)\\s+([0-9\\.]+)" -> ReItems
    [] src = "(\\w+) ([0-9,]+) (\\w+) ([0-9.]+)" -> ReItemsComma
    [] src = "(?<name>\\w+) (?<qty>\\d+) (?<unit>\\w+) (?<price>[0-9.]+)" -> ReItemsNamed
    [] src = "(?<product>\\w+) (\\d+) (\\w+) (?<price>[0-9.]+)" -> ReItemsMixed
    [] src = "(?<quantity>\\d+) (?<unit>\\w+)" -> ReItemsQuantity
    [] src = "(\\w+):|(\\d+) (\\w+)" -> ReItemsAlt
    [] src = "(?<price>.+)" -> RePrice
    [] src = "\\d+" -> ReDigits
    [] src \in InvalidSources -> SyntaxError

\* new RegExp(src, flags), flags "im" or "gim".
RegExpCtor(src, flags) ==
  LET re == Parse(src)
  IN  IF re = SyntaxError THEN SyntaxError ELSE [re EXCEPT !.global = (flags = "gim")]

\* text.match(re) of an expression without the global flag: the first match.
StringMatch(text, re) == Exec(re, text, 1)

\* Array.from(text.matchAll(re)); matchAll throws a TypeError unless re is global.
StringMatchAll(text, re) ==
  [threw |-> ~re.global, all |-> IF re.global THEN MatchesFrom(re, text, 1) ELSE <<>>]

(***************************************************************************)
(* The handler of POST /api/admin/purchase-templates/test                  *)
(***************************************************************************)
Fields == {"vendor", "date", "total", "subtotal", "items"}

\* build without its try/catch: the SyntaxError reaches the handler's catch.
buildRethrow(src, flags) ==
  IF src = NoSource \/ src = "" THEN Null
  ELSE RegExpCtor(src, IF flags = "" THEN "im" ELSE flags)

\* build (lines 137-140): null for a missing or empty source and for a source
\* that does not compile.
build(src, flags) ==
  IF src = NoSource \/ src = "" THEN Null
  ELSE LET re == RegExpCtor(src, IF flags = "" THEN "im" ELSE flags)
       IN  IF re = SyntaxError THEN Null ELSE re

\* .replace(/[^0-9\.\,]/g, '').replace(/,/g, '') (lines 163, 170, 182, 189)
StripToNumeric(s) ==
  SelectSeq(SelectSeq(s, LAMBDA c : c \in Digits \cup {".", ","}), LAMBDA c : c # ",")

\* vendor (lines 150-153)
vendorName(text, vendorRe) ==
  IF vendorRe = Null THEN <<>>
  ELSE LET m == StringMatch(text, vendorRe)
       IN  IF m.found /\ TruthyStr(At(m.m, 1)) THEN Trim(At(m.m, 1))
           ELSE IF m.found /\ TruthyStr(At(m.m, 0)) THEN Trim(At(m.m, 0))
           ELSE <<>>

\* The date taken from the first capture group, as vendor and total take theirs.
purchaseDateCaptured(text, dateRe) ==
  IF dateRe = Null THEN <<>>
  ELSE LET m == StringMatch(text, dateRe)
       IN  IF m.found THEN OrStr(At(m.m, 1), At(m.m, 0)) ELSE <<>>

\* date (lines 155-158)
purchaseDate(text, dateRe) ==
  IF dateRe = Null THEN <<>>
  ELSE LET m == StringMatch(text, dateRe)
       IN  IF m.found THEN At(m.m, 0) ELSE <<>>

\* total (lines 160-166)
total(text, totalRe) ==
  IF totalRe = Null THEN Null
  ELSE LET m == StringMatch(text, totalRe)
       IN  IF ~m.found THEN Null
           ELSE OrNull(Number(StripToNumeric(OrStr(At(m.m, 1), OrStr(At(m.m, 0), <<>>)))))

\* subtotal (lines 167-173)
subtotal(text, subtotalRe) ==
  IF subtotalRe = Null THEN Null
  ELSE LET m == StringMatch(text, subtotalRe)
       IN  IF ~m.found THEN Null
           ELSE OrNull(Number(StripToNumeric(OrStr(At(m.m, 1), OrStr(At(m.m, 0), <<>>)))))

\* The test of line 179: g.name || g.product || g.qty || g.price
usesNamed(mm) ==
  \/ TruthyStr(Group(mm, "name"))
  \/ TruthyStr(Group(mm, "product"))
  \/ TruthyStr(Group(mm, "qty"))
  \/ TruthyStr(Group(mm, "price"))

\* Number(a || b || 0) (lines 181, 187 with b undefined)
NumberOr0(a, b) == IF TruthyStr(OrStr(a, b)) THEN Number(OrStr(a, b)) ELSE Zero

\* The named-capture branch (lines 180-183)
namedItem(mm) ==
  [productName |-> Trim(OrStr(Group(mm, "name"), OrStr(Group(mm, "product"), <<>>))),
   qty |-> OrZero(NumberOr0(Group(mm, "qty"), Group(mm, "quantity"))),
   unit |-> OrStr(Group(mm, "unit"), <<>>),
   price |-> OrZero(Number(StripToNumeric(OrStr(Group(mm, "price"), <<>>))))]

\* The positional branch (lines 185-190)
positionalItem(mm) ==
  LET cap == SelectSeq(Tail(mm.m), LAMBDA v : v # Undefined)
  IN  [productName |-> Trim(OrStr(At(cap, 0), <<>>)),
       qty |-> OrZero(NumberOr0(At(cap, 1), Undefined)),
       unit |-> OrStr(At(cap, 2), <<>>),
       price |-> OrZero(Number(StripToNumeric(OrStr(At(cap, 3), <<>>))))]

\* The body of the loop (lines 178-191)
lineItem(mm) == IF usesNamed(mm) THEN namedItem(mm) ELSE positionalItem(mm)

\* The loop stopping after the first match, as text.match would.
pushFirstItem(matches) == [i \in DOMAIN matches \cap {1} |-> lineItem(matches[i])]

\* The loop over the matches (lines 176-192): every match pushes one item.
pushItems(matches) == [i \in DOMAIN matches |-> lineItem(matches[i])]

\* items (lines 175-193); threw when matchAll throws.
items(text, itemsRe) ==
  IF itemsRe = Null THEN [threw |-> FALSE, list |-> <<>>]
  ELSE LET matches == StringMatchAll(text, itemsRe)
       IN  [threw |-> matches.threw, list |-> pushItems(matches.all)]

\* A template with no key.
NoTemplate ==
  [vendorRegex |-> NoSource, dateRegex |-> NoSource, totalRegex |-> NoSource,
   subtotalRegex |-> NoSource, itemsRegex |-> NoSource]

\* A request without a body (req.body undefined).
NoBody ==
  [present |-> FALSE, text |-> Undefined, hasTemplate |-> FALSE,
   template |-> NoTemplate, top |-> NoTemplate]

\* Line 133: the template key of the body when it holds one, else the body itself.
templateOf(body) ==
  IF body.present /\ body.hasTemplate THEN body.template
  ELSE IF body.present THEN body.top
  ELSE NoTemplate

\* Line 134
textOf(body) == IF body.present /\ TruthyStr(body.text) THEN body.text ELSE <<>>

\* The handler without the check of line 135.
textNeverMissing(text) == FALSE

\* Line 135: if (!text)
textMissing(text) == text = <<>>

NoCalls == [built |-> {}, matched |-> {}]
NoResponse == [status |-> 0]
BadRequest == [status |-> 400, error |-> "text required to test template"]
Failed == [status |-> 500, error |-> "template test failed"]

\* The response of the handler to a request body (lines 132-199), and the
\* fields it compiled and matched on the way.
handle(body) ==
  LET tpl == templateOf(body)
      text == textOf(body)
      vendorRe == build(tpl.vendorRegex, "im")
      dateRe == build(tpl.dateRegex, "im")
      totalRe == build(tpl.totalRegex, "im")
      subtotalRe == build(tpl.subtotalRegex, "im")
      itemsRe == build(tpl.itemsRegex, "gim")
      res == <<vendorRe, dateRe, totalRe, subtotalRe, itemsRe>>
      matched == {f \in Fields :
                    CASE f = "vendor" -> vendorRe # Null
                      [] f = "date" -> dateRe # Null
                      [] f = "total" -> totalRe # Null
                      [] f = "subtotal" -> subtotalRe # Null
                      [] f = "items" -> itemsRe # Null}
      list == items(text, itemsRe)
  IN  IF textMissing(text) THEN [res |-> BadRequest, calls |-> NoCalls]
      ELSE IF \E i \in DOMAIN res : res[i] = SyntaxError
      THEN [res |-> Failed, calls |-> [built |-> Fields, matched |-> {}]]
      ELSE IF list.threw
      THEN [res |-> Failed, calls |-> [built |-> Fields, matched |-> matched]]
      ELSE [res |-> [status |-> 200,
                     parsed |-> [raw |-> text,
                                 vendorName |-> vendorName(text, vendorRe),
                                 purchaseDate |-> purchaseDate(text, dateRe),
                                 subtotal |-> subtotal(text, subtotalRe),
                                 total |-> total(text, totalRe),
                                 items |-> list.list]],
            calls |-> [built |-> Fields, matched |-> matched]]

(***************************************************************************)
(* Requests                                                                *)
(***************************************************************************)
\* The longest receipt of Receipt, in lines.
MaxLines == 3

TextScenario ==
  <<"A","c","m","e"," ","S","t","o","r","e","\n",
    "D","a","t","e",":"," ","2","0","2","4","-","0","1","-","1","5","\n",
    "I","t","e","m"," ","A"," ","2"," ","p","c","s"," ","5","0",".","0","0","\n",
    "I","t","e","m"," ","B"," ","1"," ","p","c","s"," ","3","0",".","0","0","\n",
    "T","o","t","a","l",":"," ","₹","1","3","0",".","0","0">>
TextZeroTotal == <<"T","o","t","a","l",":"," ","0",".","0","0">>
TextRs == <<"R","s","."," ","2",",","0","0","0">>
TextRupee == <<"₹","1",",","2","3","4",".","5","0">>
TextAbc == <<"a","b","c">>
TextPcs == <<"2"," ","p","c","s">>
TextRice == <<"R","i","c","e"," ","1",",","0","0","0"," ","k","g"," ","4","5",".","5","0">>
TextShop == <<"S","h","o","p",":"," ","A","c","m","e">>
TextShopTight == <<"S","h","o","p",":","A","c","m","e">>

\* The lines of the receipts: product, quantity, unit, price.
ReceiptLines ==
  << <<"T","e","a"," ","1"," ","k","g"," ","5",".","5">>,
     <<"O","i","l"," ","2"," ","l","t","r"," ","9","0">>,
     <<"D","a","l"," ","3"," ","k","g"," ","7",".","2","5">>,
     <<"G","u","r"," ","4"," ","k","g"," ","6","0">>,
     <<"A","t","a"," ","5"," ","k","g"," ","4","1">> >>

RECURSIVE Receipt(_)
\* The receipt of the first n lines, one line each.
Receipt(n) ==
  IF n = 0 THEN <<>>
  ELSE IF n = 1 THEN ReceiptLines[1]
  ELSE Receipt(n - 1) \o <<"\n">> \o ReceiptLines[n]

Texts ==
  {Undefined, TextScenario, TextZeroTotal, TextRs, TextRupee, TextAbc, TextPcs, TextRice,
   TextShop, TextShopTight}
  \cup {Receipt(n) : n \in 0..MaxLines}

VendorSources == {"^(.+)$", "Shop:(\\s*)\\w+", "^.+$"}
DateSources == {"Date: (\\S+)", "\\d+"}
AmountSources == {"Total:\\s*[₹]?([0-9,\\.]+)", "^.+$", "^(.+)$"}
ItemsSources ==
  {"(\\w+ \\w)\\s+(\\d+)\\s+(\\w+)\\s+([0-9\\.]+)",
   "(\\w+) ([0-9,]+) (\\w+) ([0-9.]+)",
   "(?<name>\\w+) (?<qty>\\d+) (?<unit>\\w+) (?<price>[0-9.]+)",
   "(?<product>\\w+) (\\d+) (\\w+) (?<price>[0-9.]+)",
   "(?<quantity>\\d+) (?<unit>\\w+)",
   "(\\w+):|(\\d+) (\\w+)",
   "(?<price>.+)",
   "\\d+"}
\* What a template key may hold besides a pattern that compiles.
Degenerate == {NoSource, ""} \cup InvalidSources

\* The template of the end-to-end scenario.
TemplateScenario ==
  [vendorRegex |-> "^(.+)$", dateRegex |-> "Date: (\\S+)",
   totalRegex |-> "Total:\\s*[₹]?([0-9,\\.]+)", subtotalRegex |-> NoSource,
   itemsRegex |-> "(\\w+ \\w)\\s+(\\d+)\\s+(\\w+)\\s+([0-9\\.]+)"]

\* The templates with one key.
OneKeyTemplates ==
  {[NoTemplate EXCEPT !.vendorRegex = s] : s \in VendorSources \cup Degenerate}
  \cup {[NoTemplate EXCEPT !.dateRegex = s] : s \in DateSources \cup Degenerate}
  \cup {[NoTemplate EXCEPT !.totalRegex = s] : s \in AmountSources \cup Degenerate}
  \cup {[NoTemplate EXCEPT !.subtotalRegex = s] : s \in AmountSources \cup Degenerate}
  \cup {[NoTemplate EXCEPT !.itemsRegex = s] : s \in ItemsSources \cup Degenerate}

\* The templates whose every key holds its first pattern, is missing, or holds
\* a source that does not compile.
MixedTemplates ==
  [vendorRegex : {"^(.+)$", NoSource, "("},
   dateRegex : {"Date: (\\S+)", NoSource, "("},
   totalRegex : {"Total:\\s*[₹]?([0-9,\\.]+)", NoSource, "[0-9"},
   subtotalRegex : {"^.+$", NoSource, "("},
   itemsRegex : {"(\\w+ \\w)\\s+(\\d+)\\s+(\\w+)\\s+([0-9\\.]+)", NoSource, "("}]

Templates == OneKeyTemplates \cup MixedTemplates \cup {TemplateScenario}

\* The request bodies: none, {text, template}, and the template's keys beside text.
Bodies ==
  {NoBody}
  \cup {[present |-> TRUE, text |-> t, hasTemplate |-> TRUE, template |-> tpl, top |-> NoTemplate] :
          t \in Texts, tpl \in Templates}
  \cup {[present |-> TRUE, text |-> t, hasTemplate |-> FALSE, template |-> NoTemplate, top |-> tpl] :
          t \in Texts, tpl \in OneKeyTemplates}

(***************************************************************************)
(* The server: a request arrives, the handler answers it, the response is  *)
(* sent.  The handler keeps nothing between requests.                      *)
(***************************************************************************)
VARIABLES pc, req, res, calls
vars == <<pc, req, res, calls>>

Init ==
  /\ pc = "idle"
  /\ req = NoBody
  /\ res = NoResponse
  /\ calls = NoCalls

\* express routes a POST with some body to the handler.
Receive ==
  /\ pc = "idle"
  /\ \E body \in Bodies : req' = body
  /\ pc' = "pending"
  /\ UNCHANGED <<res, calls>>

\* The handler (lines 131-200) runs to its response.
PostTemplateTest ==
  /\ pc = "pending"
  /\ LET r == handle(req)
     IN  /\ res' = r.res
         /\ calls' = r.calls
  /\ pc' = "responded"
  /\ UNCHANGED req

\* The response is sent; the server waits for the next request.
Sent ==
  /\ pc = "responded"
  /\ pc' = "idle"
  /\ req' = NoBody
  /\ res' = NoResponse
  /\ calls' = NoCalls

Next ==
  \/ Receive
  \/ PostTemplateTest
  \/ Sent

Spec == Init /\ [][Next]_vars

(***************************************************************************)
(* Properties                                                              *)
(***************************************************************************)
Responded == pc = "responded"
\* The request holds a non-empty text.
HasText == req.present /\ TruthyStr(req.text)
Answered == Responded /\ HasText /\ res.status = 200

\* The pattern source the request gives for a template key.
SourceOf(key) == templateOf(req)[key]
Compiles(src) == src # NoSource /\ src # "" /\ src \notin InvalidSources

Keys == {"vendorRegex", "dateRegex", "totalRegex", "subtotalRegex", "itemsRegex"}
\* The field of the parsed record a template key fills, and its default.
OutOf(key) ==
  CASE key = "vendorRegex" -> "vendorName"
    [] key = "dateRegex" -> "purchaseDate"
    [] key = "totalRegex" -> "total"
    [] key = "subtotalRegex" -> "subtotal"
    [] key = "itemsRegex" -> "items"
DefaultOf(key) == IF key \in {"totalRegex", "subtotalRegex"} THEN Null ELSE <<>>

\* C1: a request with a non-empty text is answered with success and a parsed
\* record of exactly the six fields, raw being the text verbatim and every
\* field whose pattern is missing at its default, whatever the template holds.
C1_Totality ==
  (Responded /\ HasText) =>
    /\ res.status = 200
    /\ DOMAIN res.parsed = {"raw", "vendorName", "purchaseDate", "subtotal", "total", "items"}
    /\ res.parsed.raw = req.text
    /\ \A key \in Keys : SourceOf(key) = NoSource => res.parsed[OutOf(key)] = DefaultOf(key)

\* The empty template {} on a non-empty text, answered with all defaults.
C1_Witness ==
  /\ Answered
  /\ req.hasTemplate /\ req.template = NoTemplate
  /\ res.parsed = [raw |-> req.text, vendorName |-> <<>>, purchaseDate |-> <<>>,
                   subtotal |-> Null, total |-> Null, items |-> <<>>]

\* The request with the source of one template key replaced.
WithSource(body, key, src) ==
  IF body.hasTemplate THEN [body EXCEPT !.template[key] = src]
  ELSE [body EXCEPT !.top[key] = src]

\* C2: a key whose source does not compile leaves its field at the default, and
\* every other field is what it is when that key is missing.
C2_GracefulDegradation ==
  (Responded /\ HasText) =>
    \A key \in Keys : SourceOf(key) \in InvalidSources =>
      /\ res.status = 200
      /\ res.parsed[OutOf(key)] = DefaultOf(key)
      /\ LET without == handle(WithSource(req, key, NoSource)).res
         IN  /\ without.status = 200
             /\ \A other \in Keys \ {key} :
                  res.parsed[OutOf(other)] = without.parsed[OutOf(other)]

\* The vendor source does not compile; date, total and items are extracted.
C2_Witness ==
  /\ Answered
  /\ SourceOf("vendorRegex") \in InvalidSources
  /\ res.parsed.vendorName = <<>>
  /\ res.parsed.purchaseDate # <<>>
  /\ res.parsed.total # Null
  /\ res.parsed.items # <<>>

\* C10: a request without a text, or with an empty one, is answered with the
\* error of line 135 and nothing was compiled or matched for it.
C10_TextRequired ==
  (Responded /\ ~HasText) =>
    /\ res = BadRequest
    /\ calls.built = {}
    /\ calls.matched = {}

\* An empty text with the template of the scenario is rejected.
C10_Witness ==
  /\ Responded
  /\ req.present /\ req.text = <<>>
  /\ req.hasTemplate /\ req.template = TemplateScenario
  /\ res.status = 400

Item(name, qty, unit, price) ==
  [productName |-> name, qty |-> qty, unit |-> unit, price |-> price]

ScenarioRequest ==
  Responded /\ req.present /\ req.text = TextScenario
  /\ req.hasTemplate /\ req.template = TemplateScenario

ScenarioItems ==
  << Item(<<"I","t","e","m"," ","A">>, Num(2, 0), <<"p","c","s">>, Num(50, 0)),
     Item(<<"I","t","e","m"," ","B">>, Num(1, 0), <<"p","c","s">>, Num(30, 0)) >>

\* C3, as stated: the scenario yields vendorName "Acme Store", purchaseDate
\* "2024-01-15", total 130 and the two items in order.
C3_Scenario ==
  ScenarioRequest =>
    /\ res.status = 200
    /\ res.parsed.vendorName = <<"A","c","m","e"," ","S","t","o","r","e">>
    /\ res.parsed.purchaseDate = <<"2","0","2","4","-","0","1","-","1","5">>
    /\ res.parsed.total = Num(130, 0)
    /\ res.parsed.items = ScenarioItems

\* C3, amended: the scenario yields vendorName "Acme Store", purchaseDate
\* "Date: 2024-01-15" (the whole match of the date pattern), total 130 and the
\* two items in order.
C3_ScenarioWholeDate ==
  ScenarioRequest =>
    /\ res.status = 200
    /\ res.parsed.vendorName = <<"A","c","m","e"," ","S","t","o","r","e">>
    /\ res.parsed.purchaseDate =
         <<"D","a","t","e",":"," ","2","0","2","4","-","0","1","-","1","5">>
    /\ res.parsed.total = Num(130, 0)
    /\ res.parsed.items = ScenarioItems

\* The scenario's request has been answered.
C3_Witness == ScenarioRequest /\ res.status = 200 /\ Len(res.parsed.items) = 2

\* Numeric normalization as the specification states it: strip, then parse
\* as a decimal number; NaN when what is left is no number.
Normalized(s) ==
  IF StripToNumeric(s) = <<>> THEN NaN ELSE Number(StripToNumeric(s))

\* The first match of the source of a key in the request's text.
FirstMatch(key) == Exec(RegExpCtor(SourceOf(key), "im"), req.text, 1)
\* The candidate string of a match: group 1 if present, else the whole match.
Candidate(m) == IF At(m.m, 1) # Undefined THEN At(m.m, 1) ELSE At(m.m, 0)

\* C4: when the total (subtotal) pattern matches, the field is the number the
\* candidate normalizes to, zero included, and null only when the candidate
\* normalizes to no number.
C4_AmountIsNormalizedCandidate ==
  Answered =>
    \A key \in {"totalRegex", "subtotalRegex"} :
      (Compiles(SourceOf(key)) /\ FirstMatch(key).found) =>
        LET n == Normalized(Candidate(FirstMatch(key)))
        IN  res.parsed[OutOf(key)] = IF n = NaN THEN Null ELSE n

\* C5: with the whole text as the candidate, "₹1,234.50" gives 1234.5,
\* "Rs. 2,000" gives 2000 and "abc" gives null (0 as an item price).
C5_CurrencyLabels ==
  Answered =>
    /\ SourceOf("totalRegex") = "^.+$" =>
         /\ req.text = TextRupee => res.parsed.total = Num(12345, 1)
         /\ req.text = TextRs => res.parsed.total = Num(2000, 0)
         /\ req.text = TextAbc => res.parsed.total = Null
    /\ SourceOf("itemsRegex") = "(?<price>.+)" =>
         /\ req.text = TextRupee => res.parsed.items[1].price = Num(12345, 1)
         /\ req.text = TextRs => res.parsed.items[1].price = Num(2000, 0)
         /\ req.text = TextAbc => res.parsed.items[1].price = Zero

\* Every match of the items source in the request's text.
AllMatches == MatchesFrom(RegExpCtor(SourceOf("itemsRegex"), "gim"), req.text, 1)
DefaultItem == Item(<<>>, Zero, <<>>, Zero)

\* C6: the items are one per match of the items pattern, in the order of the
\* matches in the text; a match of a pattern without groups gives the item of
\* all defaults; the receipt of n lines gives its n products in line order.
C6_OneItemPerMatch ==
  (Answered /\ Compiles(SourceOf("itemsRegex"))) =>
    /\ Len(res.parsed.items) = Len(AllMatches)
    /\ \A i \in DOMAIN AllMatches :
         /\ res.parsed.items[i] = lineItem(AllMatches[i])
         /\ AllMatches[i].names = <<>> => res.parsed.items[i] = DefaultItem
         /\ i > 1 => AllMatches[i - 1].end <= AllMatches[i].index
    /\ \A n \in 1..MaxLines :
         (req.text = Receipt(n)
          /\ SourceOf("itemsRegex") = "(?<name>\\w+) (?<qty>\\d+) (?<unit>\\w+) (?<price>[0-9.]+)") =>
           /\ Len(res.parsed.items) = n
           /\ \A i \in 1..n : res.parsed.items[i].productName = SubSeq(ReceiptLines[i], 1, 3)

\* The longest receipt under the pattern of named captures: one item per line,
\* the first line's product first and the last line's last.
C6_Witness ==
  /\ Answered
  /\ req.text = Receipt(MaxLines)
  /\ SourceOf("itemsRegex") = "(?<name>\\w+) (?<qty>\\d+) (?<unit>\\w+) (?<price>[0-9.]+)"
  /\ Len(res.parsed.items) = MaxLines
  /\ res.parsed.items[1].productName = <<"T","e","a">>
  /\ res.parsed.items[MaxLines].productName = SubSeq(ReceiptLines[MaxLines], 1, 3)

NamedKeys == {"name", "product", "qty", "quantity", "price", "unit"}
\* The match exposes a value for one of the named captures.
ExposesNamed(mm) == \E k \in NamedKeys : TruthyStr(Group(mm, k))

\* C7: a match that exposes a value for one of name, product, qty, quantity,
\* price, unit gives the item of the named captures; any other match gives the
\* item of the positional captures.
C7_StrategySelection ==
  (Answered /\ Compiles(SourceOf("itemsRegex"))) =>
    \A i \in DOMAIN AllMatches :
      /\ i \in DOMAIN res.parsed.items
      /\ res.parsed.items[i] =
           IF ExposesNamed(AllMatches[i]) THEN namedItem(AllMatches[i])
           ELSE positionalItem(AllMatches[i])

\* Capture group g of a match, or the empty string when it is missing or did
\* not take part in the match.
GroupOrEmpty(mm, g) == IF At(mm.m, g) = Undefined THEN <<>> ELSE At(mm.m, g)
NormalizedOrZero(s) == OrZero(Normalized(s))

\* C8: a match with none of the named captures gives productName, qty, unit
\* and price from groups 1, 2, 3 and 4 by position, a missing group giving
\* the default of its own field, qty and price numerically normalized.
C8_PositionalByGroupNumber ==
  (Answered /\ Compiles(SourceOf("itemsRegex"))) =>
    \A i \in DOMAIN AllMatches :
      ~ExposesNamed(AllMatches[i]) =>
        /\ i \in DOMAIN res.parsed.items
        /\ res.parsed.items[i] =
             Item(Trim(GroupOrEmpty(AllMatches[i], 1)),
                  NormalizedOrZero(GroupOrEmpty(AllMatches[i], 2)),
                  GroupOrEmpty(AllMatches[i], 3),
                  NormalizedOrZero(GroupOrEmpty(AllMatches[i], 4)))

\* C9: when the vendor pattern matches, vendorName is group 1 trimmed if that
\* is not empty, else the whole match trimmed; without a match it is empty.
C9_VendorFallsBackToWholeMatch ==
  (Answered /\ Compiles(SourceOf("vendorRegex"))) =>
    LET m == FirstMatch("vendorRegex")
    IN  res.parsed.vendorName =
          IF ~m.found THEN <<>>
          ELSE IF At(m.m, 1) # Undefined /\ Trim(At(m.m, 1)) # <<>> THEN Trim(At(m.m, 1))
          ELSE Trim(At(m.m, 0))
====
